---- MODULE Spec2Model ----
(***************************************************************************)
(* Model of the Contiv-VPP L2 telemetry validator                          *)
(* (plugins/crd/validator/l2/l2_validator.go).                             *)
(*                                                                         *)
(* The validator is a single synchronous pass of six sub-validators over   *)
(* the VPP cache (per-node telemetry), the K8s cache (nodes and pods) and  *)
(* the report.  The state of the model is the snapshot held by the two     *)
(* caches, the report and the position of Validate().  Strings of the      *)
(* program are TLA+ strings; an IP address string is the tuple of its      *)
(* dot-separated decimal parts and a string with a '/' is the tuple of     *)
(* its '/'-separated parts.  Go map iteration is a nondeterministic        *)
(* choice of the order.                                                    *)
(***************************************************************************)
EXTENDS Integers, Sequences, FiniteSets, TLC

VARIABLES muts, nodes, vppIdx, k8sNodes, pods, report, nodeMap, pc, ran, rerun, prevReport

vars == <<muts, nodes, vppIdx, k8sNodes, pods, report, nodeMap, pc, ran, rerun, prevReport>>

(***************************************************************************)
(* Bounds of the model.                                                    *)
(***************************************************************************)
NumNodes == 3

MaxMutations == 1

(***************************************************************************)
(* Program constants.                                                      *)
(***************************************************************************)
VppVNI == 10

GlobalMsg == "global"

LOOPBACK == "SOFTWARE_LOOPBACK"

VXLAN == "VXLAN_TUNNEL"

TAPIF == "TAP_INTERFACE"

ETHERNET == "ETHERNET_CSMACD"

NodeIds == 1..NumNodes

NodeName(i) == "node" \o ToString(i)

NodeNames == {NodeName(i) : i \in NodeIds}

GhostName == "ghost"

Buckets == NodeNames \cup {GlobalMsg, GhostName}

(***************************************************************************)
(* Small helpers.                                                          *)
(***************************************************************************)
RECURSIVE Perms(_)
Perms(S) ==
  IF S = {} THEN {<<>>}
  ELSE UNION {{<<x>> \o p : p \in Perms(S \ {x})} : x \in S}

RECURSIVE SomeOrder(_)
SomeOrder(S) ==
  IF S = {} THEN <<>>
  ELSE LET x == CHOOSE y \in S : TRUE IN <<x>> \o SomeOrder(S \ {x})

Range(s) == {s[k] : k \in 1..Len(s)}

Count(s, Test(_)) == Len(SelectSeq(s, Test))

(***************************************************************************)
(* The report: AppendToNodeReport(nodeName, msg).  A message is the tuple  *)
(* of its format (first element) and its arguments.                        *)
(***************************************************************************)
EmptyReport == [b \in Buckets |-> <<>>]

AppendToNodeReport(rep, name, msg) == [rep EXCEPT ![name] = Append(@, msg)]

AppendSeqToNodeReport(rep, name, msgs) == [rep EXCEPT ![name] = @ \o msgs]

(***************************************************************************)
(* The well-formed cluster: addresses.                                      *)
(***************************************************************************)
GigEIP(i) == <<192, 168, 16, i>>

LoopIP(i) == <<192, 168, 30, i>>

HostIP(i) == <<10, 20, 0, i>>

PodIP(i) == <<10, 1, i, 2>>

TapIP(i) == <<10, 2, 1, 2>>

UnknownIP == <<172, 16, 0, 9>>

LoopMAC(i) == "1a:2b:3c:4d:5e:0" \o ToString(i)

UnknownMAC == "de:ad:be:ef:00:00"

PodName(i) == "pod" \o ToString(i)

VxlanIfName(j) == "vxlan" \o ToString(j)

NoVxlan == [SrcAddress |-> <<>>, DstAddress |-> <<>>, Vni |-> 0]

(***************************************************************************)
(* The well-formed cluster: the telemetry of node i.  Interface 0 is       *)
(* local0, 1 the GigE uplink, 2 the loopback BVI (vxlanBVI / loop0), 3 the *)
(* tap of the node's pod, 3 + j the VXLAN tunnel to node j.                *)
(***************************************************************************)
Peers(i) == NodeIds \ {i}

WFIfIndexes(i) == {0, 1, 2, 3} \cup {3 + j : j \in Peers(i)}

WFInterface(i, idx) ==
  CASE idx = 0 ->
         [Name |-> "local0", IfType |-> "UNDEFINED", PhysAddress |-> "",
          IPAddresses |-> <<>>, Vxlan |-> NoVxlan,
          VppInternalName |-> "local0", SwIfIndex |-> idx]
    [] idx = 1 ->
         [Name |-> "GigabitEthernet0/8/0", IfType |-> ETHERNET,
          PhysAddress |-> "08:00:27:00:00:0" \o ToString(i),
          IPAddresses |-> << <<GigEIP(i), "24">> >>, Vxlan |-> NoVxlan,
          VppInternalName |-> "GigabitEthernet0/8/0", SwIfIndex |-> idx]
    [] idx = 2 ->
         [Name |-> "vxlanBVI", IfType |-> LOOPBACK, PhysAddress |-> LoopMAC(i),
          IPAddresses |-> << <<LoopIP(i), "24">> >>, Vxlan |-> NoVxlan,
          VppInternalName |-> "loop0", SwIfIndex |-> idx]
    [] idx = 3 ->
         [Name |-> "tap-" \o PodName(i), IfType |-> TAPIF,
          PhysAddress |-> "02:fe:00:00:00:0" \o ToString(i),
          IPAddresses |-> << <<TapIP(i), "32">> >>, Vxlan |-> NoVxlan,
          VppInternalName |-> "tap1", SwIfIndex |-> idx]
    [] OTHER ->
         [Name |-> VxlanIfName(idx - 3), IfType |-> VXLAN, PhysAddress |-> "",
          IPAddresses |-> <<>>,
          Vxlan |-> [SrcAddress |-> GigEIP(i), DstAddress |-> GigEIP(idx - 3),
                     Vni |-> VppVNI],
          VppInternalName |-> "vxlan_tunnel" \o ToString(idx - 3),
          SwIfIndex |-> idx]

PeerSeq(i) == SelectSeq([j \in NodeIds |-> j], LAMBDA j : j # i)

WFBridgeDomain(i) ==
  [Name |-> "vxlanBD",
   Interfaces |->
     <<[Name |-> "vxlanBVI", BVI |-> TRUE]>> \o
     [k \in 1..Len(PeerSeq(i)) |->
        [Name |-> VxlanIfName(PeerSeq(i)[k]), BVI |-> FALSE]],
   BdID2Name |->
     [idx \in {2} \cup {3 + j : j \in Peers(i)} |-> WFInterface(i, idx).Name]]

WFArp(i) ==
  [k \in 1..Len(PeerSeq(i)) |->
     [PhysAddress |-> LoopMAC(PeerSeq(i)[k]), IPAddress |-> LoopIP(PeerSeq(i)[k]),
      Static |-> TRUE, IfIndex |-> 2]]

WFFibs(i) ==
  [key \in {LoopMAC(j) : j \in NodeIds} |->
     LET j == CHOOSE n \in NodeIds : LoopMAC(n) = key IN
     IF j = i
     THEN [PhysAddress |-> key, BVI |-> TRUE, StaticConfig |-> TRUE,
           BridgeDomainID |-> 0, OutgoingIfIndex |-> 2,
           OutgoingIfName |-> "loop0"]
     ELSE [PhysAddress |-> key, BVI |-> FALSE, StaticConfig |-> TRUE,
           BridgeDomainID |-> 0, OutgoingIfIndex |-> 3 + j,
           OutgoingIfName |-> "vxlan_tunnel" \o ToString(j)]]

WFNode(i) ==
  [Name |-> NodeName(i),
   NodeInterfaces |-> [idx \in WFIfIndexes(i) |-> WFInterface(i, idx)],
   NodeBridgeDomains |-> <<WFBridgeDomain(i)>>,
   NodeIPArp |-> WFArp(i),
   NodeL2Fibs |-> WFFibs(i),
   PodMap |-> [n \in {PodName(i)} |-> i]]

IdOf(name) == CHOOSE i \in NodeIds : NodeName(i) = name

WFNodes == [n \in NodeNames |-> WFNode(IdOf(n))]

WFIndex ==
  [LoopMAC |-> [m \in {LoopMAC(i) : i \in NodeIds} |->
                  NodeName(CHOOSE i \in NodeIds : LoopMAC(i) = m)],
   LoopIP  |-> [a \in {<<LoopIP(i), "24">> : i \in NodeIds} |->
                  NodeName(CHOOSE i \in NodeIds : <<LoopIP(i), "24">> = a)],
   GigEIP  |-> [a \in {GigEIP(i) : i \in NodeIds} |->
                  NodeName(CHOOSE i \in NodeIds : GigEIP(i) = a)],
   HostIP  |-> [a \in {HostIP(i) : i \in NodeIds} |->
                  NodeName(CHOOSE i \in NodeIds : HostIP(i) = a)]]

HOSTNAME == 1

INTERNALIP == 3

WFK8sNode(i) ==
  [Name |-> NodeName(i),
   Addresses |-> <<[Type |-> INTERNALIP, Address |-> HostIP(i)],
                   [Type |-> HOSTNAME, Address |-> NodeName(i)]>>,
   Pod_CIDR |-> <<<<10, 1, i, 0>>, "24">>]

WFK8sNodes == [n \in NodeNames |-> WFK8sNode(IdOf(n))]

WFPod(i) ==
  [Name |-> PodName(i), HostIPAddress |-> HostIP(i), IPAddress |-> PodIP(i),
   VppIfIPAddr |-> <<>>, VppIfInternalName |-> "", VppIfName |-> "",
   VppSwIfIdx |-> 0]

WFPods == [o \in NodeIds |-> WFPod(o)]

\* RetrieveAllPods(): the pod objects of the K8s cache, by object identity
PodList == [o \in NodeIds |-> o]

(***************************************************************************)
(* The snapshots the validator is run on: the well-formed cluster with up  *)
(* to MaxMutations defects applied, in order, by the collecting side.      *)
(***************************************************************************)
WFSnapshot ==
  [nodes |-> WFNodes, idx |-> WFIndex, k8s |-> WFK8sNodes, pods |-> WFPods]

BadVNI == VppVNI + 1

BadIfIndex == NumNodes + 10

CidrDefects(i) ==
  {<<<<10, 1, i, 0>>>>, <<<<10, 1, i, 0>>, "x">>, <<<<10, 1, i, 0>>, "16">>,
   <<<<10, 1, i, 0>>, "33">>}

Mutations ==
  {<<"vni", a, b, BadVNI>> : a \in NodeIds, b \in NodeIds} \cup
  {<<"dst", a, b, ip>> : a \in NodeIds, b \in NodeIds,
                         ip \in {UnknownIP} \cup {GigEIP(c) : c \in NodeIds}} \cup
  {<<"rmif", a, x>> : a \in NodeIds, x \in 0..(3 + NumNodes)} \cup
  {<<"rmarp", a, b>> : a \in NodeIds, b \in NodeIds} \cup
  {<<"rmfib", a, b>> : a \in NodeIds, b \in NodeIds} \cup
  {<<"fibif", a, b, x>> : a \in NodeIds, b \in NodeIds, x \in {2, BadIfIndex}} \cup
  {<<"podcopy", a>> : a \in NodeIds} \cup
  {<<"hostnet", a>> : a \in NodeIds} \cup
  {<<"nobd", a>> : a \in NodeIds} \cup
  {<<"rmk8s", a>> : a \in NodeIds} \cup
  {<<"k8saddr", a>> : a \in NodeIds} \cup
  {<<"ghostk8s", a>> : a \in {1}} \cup
  {<<"tapip", a, <<10, 1, a, 7>>>> : a \in NodeIds} \cup
  {<<"tapip", a, <<10, 2, 1, 7>>>> : a \in NodeIds} \cup
  {<<"cidr", a, c>> : a \in NodeIds, c \in UNION {CidrDefects(i) : i \in NodeIds}}

\* a mutation names things of the well-formed cluster
ValidMutation(m) ==
  CASE m[1] \in {"vni", "rmarp"} -> m[2] # m[3]
    [] m[1] = "dst" -> m[2] # m[3] /\ m[4] # GigEIP(m[3])
    [] m[1] = "rmif" -> m[3] \in WFIfIndexes(m[2])
    [] m[1] = "fibif" -> m[2] # m[3]
    [] m[1] = "cidr" -> m[3] \in CidrDefects(m[2])
    [] OTHER -> TRUE

\* the node after b, in a ring
Succ(b) == (b % NumNodes) + 1

\* a second address of a tap: another subnet, the host part of TapIP
TapIP2 == <<10, 2, 7, 2>>

\* a bridge domain of node i that is not the overlay: the pod's tap
OtherBD(i) ==
  [Name |-> "otherBD",
   Interfaces |-> <<[Name |-> "tap-" \o PodName(i), BVI |-> FALSE]>>,
   BdID2Name |-> [idx \in {3} |-> "tap-" \o PodName(i)]]

\* Defects of the bridge-domain list and metadata, of the MAC of ARP and FIB
\* entries, of the K8s addresses and of the pod maps, with the defects of
\* Mutations that FIB and pod validation react to.  "fibdyn" turns a FIB
\* entry into a learned one on an interface that is not in the dump, "fibbd"
\* into an entry of another bridge domain on the pod's tap.
ExtMutations ==
  {<<"tapaddr", a>> : a \in NodeIds} \cup
  {<<"arpmac", a, b>> : a \in NodeIds, b \in NodeIds} \cup
  {<<"rmbdid", a, x>> : a \in NodeIds, x \in 2..(3 + NumNodes)} \cup
  {<<"extrabd", a, pos>> : a \in NodeIds, pos \in {0, 1}} \cup
  {<<"fibmac", a, b>> : a \in NodeIds, b \in NodeIds} \cup
  {<<"fibdyn", a, b>> : a \in NodeIds, b \in NodeIds} \cup
  {<<"fibbd", a, b>> : a \in NodeIds, b \in NodeIds} \cup
  {<<"k8sextra", a, t>> : a \in NodeIds, t \in {0, 1}} \cup
  {<<"rmpod", a>> : a \in NodeIds} \cup
  {<<"podhost", a>> : a \in NodeIds} \cup
  {m \in Mutations :
     \/ m[1] \in {"podcopy", "rmk8s", "k8saddr"}
     \/ m[1] = "fibif" /\ m[4] = BadIfIndex
     \/ m[1] = "rmif" /\ m[3] = 2
     \/ m[1] = "dst" /\ m[4] = UnknownIP}

ValidExtMutation(m) ==
  CASE m[1] = "arpmac" -> m[2] # m[3]
    [] m[1] = "rmbdid" -> m[3] \in {2} \cup {3 + j : j \in Peers(m[2])}
    [] m[1] \in {"tapaddr", "extrabd", "fibmac", "fibdyn", "fibbd", "k8sextra",
                 "rmpod", "podhost"} -> TRUE
    [] OTHER -> ValidMutation(m)

Without(f, k) == [x \in DOMAIN f \ {k} |-> f[x]]

With(f, k, v) == [x \in DOMAIN f \cup {k} |-> IF x = k THEN v ELSE f[x]]

ApplyMutation(snap, m) ==
  LET a == NodeName(m[2]) IN
  CASE m[1] = "vni" ->
         IF 3 + m[3] \in DOMAIN snap.nodes[a].NodeInterfaces
         THEN [snap EXCEPT !.nodes[a].NodeInterfaces[3 + m[3]].Vxlan.Vni = m[4]]
         ELSE snap
    [] m[1] = "dst" ->
         IF 3 + m[3] \in DOMAIN snap.nodes[a].NodeInterfaces
         THEN [snap EXCEPT !.nodes[a].NodeInterfaces[3 + m[3]].Vxlan.DstAddress = m[4]]
         ELSE snap
    [] m[1] = "rmif" ->
         [snap EXCEPT !.nodes[a].NodeInterfaces = Without(@, m[3])]
    [] m[1] = "rmarp" ->
         [snap EXCEPT !.nodes[a].NodeIPArp =
            SelectSeq(@, LAMBDA e : e.IPAddress # LoopIP(m[3]))]
    [] m[1] = "rmfib" ->
         [snap EXCEPT !.nodes[a].NodeL2Fibs = Without(@, LoopMAC(m[3]))]
    [] m[1] = "fibif" ->
         IF LoopMAC(m[3]) \in DOMAIN snap.nodes[a].NodeL2Fibs
         THEN [snap EXCEPT !.nodes[a].NodeL2Fibs[LoopMAC(m[3])].OutgoingIfIndex = m[4]]
         ELSE snap
    [] m[1] = "podcopy" ->
         [snap EXCEPT !.nodes[a].PodMap[PodName(m[2])] = NumNodes + m[2],
                      !.pods = With(@, NumNodes + m[2], snap.pods[m[2]])]
    [] m[1] = "hostnet" ->
         [snap EXCEPT !.pods[m[2]].IPAddress = snap.pods[m[2]].HostIPAddress]
    [] m[1] = "nobd" ->
         [snap EXCEPT !.nodes[a].NodeBridgeDomains = <<>>]
    [] m[1] = "rmk8s" ->
         [snap EXCEPT !.k8s = Without(@, a)]
    [] m[1] = "k8saddr" ->
         IF a \in DOMAIN snap.k8s
         THEN [snap EXCEPT !.k8s[a].Addresses[1].Address = UnknownIP]
         ELSE snap
    [] m[1] = "ghostk8s" ->
         [snap EXCEPT !.k8s = With(@, GhostName,
            [Name |-> GhostName,
             Addresses |-> <<[Type |-> INTERNALIP, Address |-> UnknownIP],
                             [Type |-> HOSTNAME, Address |-> GhostName]>>,
             Pod_CIDR |-> <<<<10, 1, 0, 0>>, "24">>])]
    [] m[1] = "tapip" ->
         IF 3 \in DOMAIN snap.nodes[a].NodeInterfaces
         THEN [snap EXCEPT !.nodes[a].NodeInterfaces[3].IPAddresses =
                 << <<m[3], "32">> >>]
         ELSE snap
    [] m[1] = "cidr" ->
         IF a \in DOMAIN snap.k8s
         THEN [snap EXCEPT !.k8s[a].Pod_CIDR = m[3]]
         ELSE snap
    [] m[1] = "tapaddr" ->
         IF 3 \in DOMAIN snap.nodes[a].NodeInterfaces
         THEN [snap EXCEPT !.nodes[a].NodeInterfaces[3].IPAddresses =
                 Append(@, <<TapIP2, "32">>)]
         ELSE snap
    [] m[1] = "arpmac" ->
         [snap EXCEPT !.nodes[a].NodeIPArp =
            [k \in DOMAIN @ |->
               IF @[k].IPAddress = LoopIP(m[3])
               THEN [@[k] EXCEPT !.PhysAddress = LoopMAC(Succ(m[3]))]
               ELSE @[k]]]
    [] m[1] = "rmbdid" ->
         [snap EXCEPT !.nodes[a].NodeBridgeDomains =
            [k \in DOMAIN @ |->
               IF @[k].Name = "vxlanBD"
               THEN [@[k] EXCEPT !.BdID2Name = Without(@, m[3])]
               ELSE @[k]]]
    [] m[1] = "extrabd" ->
         IF m[3] = 1
         THEN [snap EXCEPT !.nodes[a].NodeBridgeDomains = Append(@, OtherBD(m[2]))]
         ELSE [snap EXCEPT
                 !.nodes[a].NodeBridgeDomains = <<OtherBD(m[2])>> \o @,
                 !.nodes[a].NodeL2Fibs =
                    [key \in DOMAIN @ |->
                       [@[key] EXCEPT !.BridgeDomainID = @ + 1]]]
    [] m[1] = "fibmac" ->
         IF LoopMAC(m[3]) \in DOMAIN snap.nodes[a].NodeL2Fibs
         THEN [snap EXCEPT !.nodes[a].NodeL2Fibs[LoopMAC(m[3])].PhysAddress =
                 LoopMAC(Succ(m[3]))]
         ELSE snap
    [] m[1] = "fibdyn" ->
         IF LoopMAC(m[3]) \in DOMAIN snap.nodes[a].NodeL2Fibs
         THEN [snap EXCEPT !.nodes[a].NodeL2Fibs[LoopMAC(m[3])].StaticConfig = FALSE,
                           !.nodes[a].NodeL2Fibs[LoopMAC(m[3])].OutgoingIfIndex = BadIfIndex]
         ELSE snap
    [] m[1] = "fibbd" ->
         IF LoopMAC(m[3]) \in DOMAIN snap.nodes[a].NodeL2Fibs
         THEN [snap EXCEPT !.nodes[a].NodeL2Fibs[LoopMAC(m[3])].BridgeDomainID =
                 @ + Len(snap.nodes[a].NodeBridgeDomains) + 1,
                           !.nodes[a].NodeL2Fibs[LoopMAC(m[3])].OutgoingIfIndex = 3]
         ELSE snap
    [] m[1] = "k8sextra" ->
         IF a \in DOMAIN snap.k8s
         THEN [snap EXCEPT !.k8s[a].Addresses =
                 Append(@, [Type |-> INTERNALIP,
                            Address |-> IF m[3] = 0 THEN UnknownIP ELSE HostIP(m[2])])]
         ELSE snap
    [] m[1] = "rmpod" ->
         [snap EXCEPT !.nodes[a].PodMap = Without(@, PodName(m[2]))]
    [] m[1] = "podhost" ->
         [snap EXCEPT !.pods[m[2]].HostIPAddress = UnknownIP]

RECURSIVE ApplyMutations(_, _, _)
ApplyMutations(snap, ms, k) ==
  IF k > Len(ms) THEN snap
  ELSE ApplyMutations(ApplyMutation(snap, ms[k]), ms, k + 1)

\* the defects of a snapshot are applied in the order of their kinds
KindRank(m) ==
  CASE m[1] = "vni" -> 1 [] m[1] = "dst" -> 2 [] m[1] = "rmif" -> 3
    [] m[1] = "rmarp" -> 4 [] m[1] = "rmfib" -> 5 [] m[1] = "fibif" -> 6
    [] m[1] = "podcopy" -> 7 [] m[1] = "hostnet" -> 8 [] m[1] = "nobd" -> 9
    [] m[1] = "rmk8s" -> 10 [] m[1] = "k8saddr" -> 11 [] m[1] = "ghostk8s" -> 12
    [] m[1] = "tapip" -> 13 [] m[1] = "cidr" -> 14 [] m[1] = "tapaddr" -> 15
    [] m[1] = "arpmac" -> 16 [] m[1] = "rmbdid" -> 17 [] m[1] = "extrabd" -> 18
    [] m[1] = "fibmac" -> 19 [] m[1] = "fibdyn" -> 20 [] m[1] = "fibbd" -> 21
    [] m[1] = "k8sextra" -> 22 [] m[1] = "rmpod" -> 23 [] m[1] = "podhost" -> 24

Rank(m) == (KindRank(m) * (NumNodes + 1) + m[2]) * (NumNodes + 1) + (IF Len(m) > 2 /\ m[1] # "tapip" /\ m[1] # "cidr" THEN m[3] ELSE 0)

MutationSeqs ==
  UNION {{ms \in [1..k -> {m \in Mutations : ValidMutation(m)}] :
            \A j \in 1..(k - 1) : Rank(ms[j]) < Rank(ms[j + 1])} :
         k \in 0..MaxMutations}

ExtMutationSeqs ==
  UNION {{ms \in [1..k -> {m \in ExtMutations : ValidExtMutation(m)}] :
            \A j \in 1..(k - 1) : Rank(ms[j]) < Rank(ms[j + 1])} :
         k \in 0..MaxMutations}

Snapshot(ms) == ApplyMutations(WFSnapshot, ms, 1)

(***************************************************************************)
(* The caches.  A lookup by a secondary index returns the node's name, or  *)
(* fails when the key is not in the index.                                 *)
(***************************************************************************)
RetrieveAllNodes ==
  SelectSeq([i \in NodeIds |-> NodeName(i)], LAMBDA n : n \in DOMAIN nodes)

Found(index, key) == key \in DOMAIN index

RetrieveNodeByLoopMacAddr(mac) == vppIdx.LoopMAC[mac]

RetrieveNodeByLoopIPAddr(ip) == vppIdx.LoopIP[ip]

RetrieveNodeByGigEIPAddr(ip) == vppIdx.GigEIP[ip]

RetrieveNodeByHostIPAddr(ip) == vppIdx.HostIP[ip]

RetrieveAllPods == PodList

\* datastore.GetNodeLoopIFInfo(node): the node's loop0 interface, if any
LoopIfIndexes(node) ==
  {x \in DOMAIN node.NodeInterfaces : node.NodeInterfaces[x].VppInternalName = "loop0"}

HasLoopIF(node) == LoopIfIndexes(node) # {}

GetNodeLoopIFInfo(node) ==
  node.NodeInterfaces[CHOOSE x \in LoopIfIndexes(node) : TRUE]

printS(errCnt) == IF errCnt > 0 THEN "s" ELSE ""

\* a finding appended to a node's bucket and counted
Finding(st, name, msg) ==
  [st EXCEPT !.rep = AppendToNodeReport(@, name, msg), !.errCnt = @ + 1]

(***************************************************************************)
(* ValidateArpTables                                                       *)
(***************************************************************************)
ArpEntry(node, e, st) ==
  IF ~e.Static THEN st
  ELSE IF e.IfIndex \notin DOMAIN node.NodeInterfaces
  THEN Finding(st, node.Name,
         <<"invalid ARP entry: bad ifIndex", e.PhysAddress, e.IPAddress, e.IfIndex>>)
  ELSE
    LET arpIf == node.NodeInterfaces[e.IfIndex] IN
    IF arpIf.IfType # LOOPBACK \/ arpIf.Name # "vxlanBVI" THEN st
    ELSE
      LET macOk == Found(vppIdx.LoopMAC, e.PhysAddress)
          ipOk  == Found(vppIdx.LoopIP, <<e.IPAddress, "24">>)
          st1 == IF macOk THEN st
                 ELSE Finding(st, node.Name,
                        <<"invalid ARP entry: bad MAC Addess", e.PhysAddress, e.IPAddress>>)
          st2 == IF ipOk THEN st1
                 ELSE Finding(st1, node.Name,
                        <<"invalid ARP entry: bad IP Addess", e.PhysAddress, e.IPAddress>>)
      IN
      IF ~macOk \/ ~ipOk THEN st2
      ELSE
        LET macNode == RetrieveNodeByLoopMacAddr(e.PhysAddress)
            ipNode  == RetrieveNodeByLoopIPAddr(<<e.IPAddress, "24">>)
            st3 == IF macNode # ipNode
                   THEN Finding(st2, node.Name,
                          <<"invalid ARP entry: MAC -> node, IP -> node",
                            e.PhysAddress, e.IPAddress, macNode, ipNode>>)
                   ELSE st2
        IN [st3 EXCEPT !.set = @ \ {ipNode}]

RECURSIVE ArpScan(_, _, _)
ArpScan(node, k, st) ==
  IF k > Len(node.NodeIPArp) THEN st
  ELSE ArpScan(node, k + 1, ArpEntry(node, node.NodeIPArp[k], st))

\* the expected peers of a node: every node but itself
loopNodeMap_WithSelf(node) == Range(RetrieveAllNodes)

loopNodeMap(node) == Range(RetrieveAllNodes) \ {node.Name}

\* the outcomes of one node: the leftover peers are ranged over in map order
ArpNode(node, c) ==
  LET st == ArpScan(node, 1,
              [rep |-> c.rep, errCnt |-> c.errCnt,
               set |-> loopNodeMap(node)])
  IN {[rep |-> AppendSeqToNodeReport(st.rep, node.Name,
                 [k \in 1..Len(ord) |-> <<"missing ARP entry for node", ord[k]>>]),
       errCnt |-> st.errCnt + Len(ord)] : ord \in Perms(st.set)}

RECURSIVE ArpNodes(_, _)
ArpNodes(k, S) ==
  IF k > Len(RetrieveAllNodes) THEN S
  ELSE ArpNodes(k + 1, UNION {ArpNode(nodes[RetrieveAllNodes[k]], c) : c \in S})

ArpSummary(errCnt) ==
  IF errCnt = 0 THEN <<"ARP Table Validation: OK">>
  ELSE <<"ARP Table Validation: error found", errCnt, printS(errCnt)>>

ArpOutcomes(rep) ==
  {AppendToNodeReport(c.rep, GlobalMsg, ArpSummary(c.errCnt)) :
     c \in ArpNodes(1, {[rep |-> rep, errCnt |-> 0]})}

(***************************************************************************)
(* ValidateL2Connectivity                                                  *)
(***************************************************************************)
VxlanBDs(node) ==
  {k \in 1..Len(node.NodeBridgeDomains) : node.NodeBridgeDomains[k].Name = "vxlanBD"}

\* vxLanBD = &bdomain takes the address of the range variable, which the
\* loop keeps assigning: after the loop it holds the last bridge domain
VxLanBDPtr(node) == node.NodeBridgeDomains[Len(node.NodeBridgeDomains)]

\* bdName2Id[name], 0 when the name is not in the map (ids are unique per
\* name in every snapshot of the model)
BdName2Id(bd, name) ==
  LET ids == {id \in DOMAIN bd.BdID2Name : bd.BdID2Name[id] = name}
  IN IF ids = {} THEN 0 ELSE CHOOSE id \in ids : TRUE

MatchingTunnelFound_SameDst(dstipNode, nodeIfc) ==
  \E x \in DOMAIN dstipNode.NodeInterfaces :
    /\ dstipNode.NodeInterfaces[x].IfType = nodeIfc.IfType
    /\ dstipNode.NodeInterfaces[x].Vxlan.DstAddress = nodeIfc.Vxlan.DstAddress

MatchingTunnelFound(dstipNode, nodeIfc) ==
  \E x \in DOMAIN dstipNode.NodeInterfaces :
    /\ dstipNode.NodeInterfaces[x].IfType = nodeIfc.IfType
    /\ dstipNode.NodeInterfaces[x].Vxlan.DstAddress = nodeIfc.Vxlan.SrcAddress

BadVniFinding_Unchecked(st, node, nodeIfc) == st

BadVniFinding(st, node, nodeIfc) ==
  IF nodeIfc.Vxlan.Vni # VppVNI
  THEN Finding(st, node.Name,
         <<"bad VNI", nodeIfc.Name, nodeIfc.VppInternalName, nodeIfc.Vxlan.Vni, VppVNI>>)
  ELSE st

NoMatchingTunnelFinding_Unchecked(st, node, nodeIfc, dstName) == st

NoMatchingTunnelFinding(st, node, nodeIfc, dstName) ==
  IF ~MatchingTunnelFound(nodes[dstName], nodeIfc)
  THEN Finding(st, node.Name,
         <<"no matching vxlan_tunnel found on remote node", dstName, nodeIfc.Name>>)
  ELSE st

BviMember(node, bdIfc, ifIndex, nodeIfc, st) ==
  LET st1 == IF st.hasBviIfc
             THEN Finding(st, node.Name,
                    <<"duplicate BVI", nodeIfc.IfType, bdIfc.Name, ifIndex, nodeIfc.Name>>)
             ELSE st
  IN
  IF nodeIfc.IfType # LOOPBACK
  THEN Finding(st1, node.Name,
         <<"invalid BVI type", nodeIfc.IfType, bdIfc.Name, ifIndex, nodeIfc.Name>>)
  ELSE
    LET st2 == [st1 EXCEPT !.hasBviIfc = TRUE, !.i = @ + 1] IN
    IF ~Found(vppIdx.LoopMAC, nodeIfc.PhysAddress)
    THEN Finding(st2, node.Name,
           <<"validator internal error: bad MAC Addr index",
             nodeIfc.PhysAddress, bdIfc.Name, ifIndex, nodeIfc.Name>>)
    ELSE [st2 EXCEPT !.set = @ \ {RetrieveNodeByLoopMacAddr(nodeIfc.PhysAddress)}]

TunnelMember(node, bdIfc, ifIndex, nodeIfc, st) ==
  IF nodeIfc.IfType # VXLAN
  THEN Finding(st, node.Name,
         <<"invalid BD interface type", nodeIfc.IfType, bdIfc.Name, ifIndex, nodeIfc.Name>>)
  ELSE
    LET st1 == BadVniFinding(st, node, nodeIfc) IN
    IF ~Found(vppIdx.GigEIP, nodeIfc.Vxlan.SrcAddress)
    THEN Finding(st1, node.Name,
           <<"error finding node with src IP", nodeIfc.Vxlan.SrcAddress>>)
    ELSE IF RetrieveNodeByGigEIPAddr(nodeIfc.Vxlan.SrcAddress) # node.Name
    THEN Finding(st1, node.Name,
           <<"vxlan_tunnel has source ip which points to a different node",
             nodeIfc.Name, nodeIfc.Vxlan.SrcAddress, node.Name>>)
    ELSE IF ~Found(vppIdx.GigEIP, nodeIfc.Vxlan.DstAddress)
    THEN Finding(st1, node.Name,
           <<"node with dst ip in vxlan_tunnel not found",
             nodeIfc.Vxlan.DstAddress, nodeIfc.Name>>)
    ELSE
      LET dstName == RetrieveNodeByGigEIPAddr(nodeIfc.Vxlan.DstAddress)
          st2 == NoMatchingTunnelFinding(st1, node, nodeIfc, dstName)
      IN \* the second lookup of the same destination address cannot fail
         [st2 EXCEPT !.i = @ + 1, !.set = @ \ {dstName}]

BdMember(node, bd, bdIfc, st) ==
  LET ifIndex == BdName2Id(bd, bdIfc.Name) IN
  IF ifIndex \notin DOMAIN node.NodeInterfaces
  THEN Finding(st, node.Name, <<"ifIndex invalid for BD interface", ifIndex, bdIfc.Name>>)
  ELSE IF bdIfc.BVI
       THEN BviMember(node, bdIfc, ifIndex, node.NodeInterfaces[ifIndex], st)
       ELSE TunnelMember(node, bdIfc, ifIndex, node.NodeInterfaces[ifIndex], st)

RECURSIVE BdScan(_, _, _, _)
BdScan(node, bd, k, st) ==
  IF k > Len(bd.Interfaces) THEN st
  ELSE BdScan(node, bd, k + 1, BdMember(node, bd, bd.Interfaces[k], st))

\* i != len(nodeList): the BVI and one tunnel per peer are expected
WrongIfCount_TunnelsOnly(i) == i # Len(RetrieveAllNodes) - 1

WrongIfCount(i) == i # Len(RetrieveAllNodes)

\* the outcomes of one node; c.nodeMap is the set of nodes not yet validated
L2ConnNode(node, c) ==
  IF Cardinality(VxlanBDs(node)) > 1
  THEN {Finding(c, node.Name, <<"multiple vxlanBD bridge domains - skipping L2 validation">>)}
  ELSE IF VxlanBDs(node) = {}
  THEN {Finding(c, node.Name, <<"no vxlan BD - skipping L2 validation">>)}
  ELSE
    LET st == BdScan(node, VxLanBDPtr(node), 1,
                [rep |-> c.rep, errCnt |-> c.errCnt, i |-> 0, hasBviIfc |-> FALSE,
                 set |-> Range(RetrieveAllNodes)])
        st1 == IF WrongIfCount(st.i)
               THEN Finding(st, node.Name,
                      <<"the number of valid BD interfaces does not match the number of nodes in cluster",
                        st.i, Len(RetrieveAllNodes)>>)
               ELSE st
    IN
    IF ~st1.hasBviIfc
    THEN {[rep |-> AppendToNodeReport(st1.rep, node.Name,
                     <<"BVI in the Contiv cluster Vxlan BD is invalid or missing">>),
           errCnt |-> st1.errCnt + 1, nodeMap |-> c.nodeMap]}
    ELSE IF st1.set # {}
    THEN {[rep |-> AppendSeqToNodeReport(st1.rep, node.Name,
                     [k \in 1..Len(ord) |->
                        <<"BD interface missing or invalid for node", ord[k]>>]),
           errCnt |-> st1.errCnt + Len(ord), nodeMap |-> c.nodeMap] :
            ord \in Perms(st1.set)}
    ELSE {[rep |-> st1.rep, errCnt |-> st1.errCnt, nodeMap |-> c.nodeMap \ {node.Name}]}

RECURSIVE L2ConnNodes(_, _)
L2ConnNodes(k, S) ==
  IF k > Len(RetrieveAllNodes) THEN S
  ELSE L2ConnNodes(k + 1, UNION {L2ConnNode(nodes[RetrieveAllNodes[k]], c) : c \in S})

L2ConnSummary(errCnt) ==
  IF errCnt = 0 THEN <<"L2 connectivity validation: OK">>
  ELSE <<"L2 connectivity validation: errors found", errCnt>>

\* every node left in nodeMap gets the entry in its own bucket
L2ConnFinish(c) ==
  [rep |-> AppendToNodeReport(
             [b \in Buckets |->
                IF b \in c.nodeMap
                THEN Append(c.rep[b], <<"failed to validate the Contiv cluster Vxlan BD">>)
                ELSE c.rep[b]],
             GlobalMsg, L2ConnSummary(c.errCnt)),
   nodeMap |-> c.nodeMap]

L2ConnOutcomes(rep) ==
  {L2ConnFinish(c) :
     c \in L2ConnNodes(1, {[rep |-> rep, errCnt |-> 0,
                            nodeMap |-> Range(RetrieveAllNodes)]})}

(***************************************************************************)
(* ValidateL2FibEntries                                                    *)
(***************************************************************************)
\* getVxlanBD(node): the index of the first bridge domain named vxlanBD
HasVxlanBD(node) == VxlanBDs(node) # {}

getVxlanBD(node) ==
  (CHOOSE k \in VxlanBDs(node) : \A l \in VxlanBDs(node) : k <= l) - 1

Qualifies(node, feKey) ==
  /\ node.NodeL2Fibs[feKey].BridgeDomainID = getVxlanBD(node)
  /\ node.NodeL2Fibs[feKey].StaticConfig

FibAccount_KeepsEntry(st, feKey, name) == [st EXCEPT !.nodeFibMap = @ \ {name}]

FibAccount(st, feKey, name) ==
  [st EXCEPT !.fibNodeMap = @ \ {feKey}, !.nodeFibMap = @ \ {name}]

FibBviEntry(node, feKey, feVal, st) ==
  LET st1 == IF ~HasLoopIF(node)
             THEN Finding(st, node.Name,
                    <<"invalid L2Fib BVI entry: loop interface not found on node",
                      feKey, node.Name>>)
             ELSE IF feVal.PhysAddress # GetNodeLoopIFInfo(node).PhysAddress
             THEN Finding(st, node.Name,
                    <<"L2Fib BVI entry invalid - bad MAC address", feKey,
                      feVal.PhysAddress, GetNodeLoopIFInfo(node).PhysAddress>>)
             ELSE st
      st2 == IF Found(vppIdx.LoopMAC, feVal.PhysAddress)
             THEN [st1 EXCEPT !.fibHasLoopIF = TRUE]
             ELSE Finding(st1, node.Name,
                    <<"L2Fib validator internal error: inconsistent MAC Address index",
                      feVal.PhysAddress>>)
  IN FibAccount(st2, feKey, node.Name)

FibRemoteEntry(node, feKey, feVal, st) ==
  IF feVal.OutgoingIfIndex \notin DOMAIN node.NodeInterfaces
  THEN Finding(st, node.Name,
         <<"outgoing interface for L2Fib entry not found", feVal.PhysAddress,
           feVal.OutgoingIfName, feVal.OutgoingIfIndex>>)
  ELSE
    LET intf == node.NodeInterfaces[feVal.OutgoingIfIndex] IN
    IF ~Found(vppIdx.GigEIP, intf.Vxlan.DstAddress)
    THEN Finding(st, node.Name,
           <<"invalid L2Fib entry: remote node for VXLAN DstIP not found",
             feKey, intf.Vxlan.DstAddress>>)
    ELSE
      LET macNode == RetrieveNodeByGigEIPAddr(intf.Vxlan.DstAddress) IN
      IF ~HasLoopIF(nodes[macNode])
      THEN Finding(FibAccount(st, feKey, macNode), node.Name,
             <<"invalid L2Fib entry: missing loop interface on remote node",
               feVal.PhysAddress, macNode>>)
      ELSE
        LET remoteLoopIF == GetNodeLoopIFInfo(nodes[macNode])
            st1 == IF remoteLoopIF.PhysAddress # feVal.PhysAddress
                   THEN Finding(st, node.Name,
                          <<"invalid L2Fib entry: have MAC Address, expecting",
                            feKey, feVal.PhysAddress, remoteLoopIF.PhysAddress>>)
                   ELSE st
            st2 == IF ~Found(vppIdx.LoopMAC, feVal.PhysAddress)
                   THEN Finding(st1, node.Name,
                          <<"L2Fib validator internal error: inconsistent MAC Address index",
                            feVal.PhysAddress>>)
                   ELSE st1
        IN FibAccount(st2, feKey, macNode)

FibEntry(node, feKey, st) ==
  IF node.NodeL2Fibs[feKey].BVI
  THEN FibBviEntry(node, feKey, node.NodeL2Fibs[feKey], st)
  ELSE FibRemoteEntry(node, feKey, node.NodeL2Fibs[feKey], st)

\* the qualifying entries in the order ord of the range over the map
RECURSIVE FibScan(_, _, _, _)
FibScan(node, ord, k, st) ==
  IF k > Len(ord) THEN st
  ELSE FibScan(node, ord, k + 1, FibEntry(node, ord[k], st))

FibLeftovers(node, st, nodeOrd, fibOrd) ==
  LET st1 == IF ~st.fibHasLoopIF
             THEN Finding(st, node.Name, <<"L2Fib entry for the 'loop0' interface not found">>)
             ELSE st
  IN [rep |-> AppendSeqToNodeReport(st1.rep, node.Name,
                [k \in 1..Len(nodeOrd) |-> <<"missing L2Fib entry for node", nodeOrd[k]>>]
                \o
                [k \in 1..Len(fibOrd) |->
                   <<"dangling L2Fib entry - no node for entry found", fibOrd[k]>>]),
      errCnt |-> st1.errCnt + Len(nodeOrd) + Len(fibOrd)]

L2FibNodeScanned(node, st) ==
  {FibLeftovers(node, st, nodeOrd, fibOrd) :
     nodeOrd \in Perms(st.nodeFibMap), fibOrd \in Perms(st.fibNodeMap)}

\* The orders of the range over node.NodeL2Fibs.  An entry that appends no
\* finding leaves no trace of its place in the order (the two sets and the
\* flag do not depend on the order), so the orders are those of the entries
\* with findings, after the others.
FibOrders(node, keys, st) ==
  LET noisy == {feKey \in keys : FibEntry(node, feKey, st).errCnt # st.errCnt}
  IN {SomeOrder(keys \ noisy) \o p : p \in Perms(noisy)}

L2FibNode(node, c) ==
  IF ~HasVxlanBD(node)
  THEN {Finding(c, node.Name,
          <<"vxlanBD not found - skipping L2Fib validation for node", node.Name>>)}
  ELSE
    LET keys == {feKey \in DOMAIN node.NodeL2Fibs : Qualifies(node, feKey)}
        st == [rep |-> c.rep, errCnt |-> c.errCnt, fibHasLoopIF |-> FALSE,
               nodeFibMap |-> Range(RetrieveAllNodes), fibNodeMap |-> keys]
    IN UNION {L2FibNodeScanned(node, FibScan(node, ord, 1, st)) :
              ord \in FibOrders(node, keys, st)}

RECURSIVE L2FibNodes(_, _)
L2FibNodes(k, S) ==
  IF k > Len(RetrieveAllNodes) THEN S
  ELSE L2FibNodes(k + 1, UNION {L2FibNode(nodes[RetrieveAllNodes[k]], c) : c \in S})

L2FibSummary(errCnt) ==
  IF errCnt = 0 THEN <<"L2Fib validation: OK">>
  ELSE <<"L2Fib validation: errors found", errCnt>>

L2FibOutcomes(rep) ==
  {AppendToNodeReport(c.rep, GlobalMsg, L2FibSummary(c.errCnt)) :
     c \in L2FibNodes(1, {[rep |-> rep, errCnt |-> 0]})}

(***************************************************************************)
(* ValidateK8sNodeInfo                                                     *)
(***************************************************************************)
RetrieveAllK8sNodes == DOMAIN k8sNodes

K8sNodeFound(name) == name \in DOMAIN k8sNodes

RetrieveK8sNode(name) == k8sNodes[name]

RECURSIVE K8sNodeScan(_, _)
K8sNodeScan(k, st) ==
  IF k > Len(RetrieveAllNodes) THEN st
  ELSE
    LET name == RetrieveAllNodes[k] IN
    K8sNodeScan(k + 1,
      IF ~K8sNodeFound(name)
      THEN [st EXCEPT !.rep = AppendToNodeReport(@, name,
              <<"node not present in the k8s node map", name>>)]
      ELSE IF name = RetrieveK8sNode(name).Name
      THEN [st EXCEPT !.nodeMap = @ \ {name},
                      !.k8sNodeMap = @ \ {RetrieveK8sNode(name).Name}]
      ELSE st)

\* the leftovers of both maps go to their own buckets: the order of the
\* ranges does not show
K8sNodeInfoOutcome(rep) ==
  LET st == K8sNodeScan(1,
              [rep |-> rep, nodeMap |-> Range(RetrieveAllNodes),
               k8sNodeMap |-> {k8sNodes[n].Name : n \in RetrieveAllK8sNodes}])
      r1 == [b \in Buckets |->
               IF b \in st.k8sNodeMap
               THEN Append(st.rep[b], <<"Contiv node missing for K8s node", b>>)
               ELSE st.rep[b]]
  IN [b \in Buckets |->
        IF b \in st.nodeMap
        THEN Append(r1[b], <<"K8s node missing for Contiv node", b>>)
        ELSE r1[b]]

(***************************************************************************)
(* ValidatePodInfo.  A pod of the K8s cache is the object o of the heap    *)
(* pods; a node's PodMap holds object references.                          *)
(***************************************************************************)
SamePod_ByValue(o, podPtr) == pods[o] = pods[podPtr]

SamePod(o, podPtr) == o = podPtr

RECURSIVE AddressScan(_, _, _, _)
AddressScan(pod, nodeName, adrs, st) ==
  IF adrs = <<>> THEN st
  ELSE
    LET adr == Head(adrs) IN
    AddressScan(pod, nodeName, Tail(adrs),
      IF adr.Type = INTERNALIP
      THEN IF adr.Address # pod.HostIPAddress
           THEN [st EXCEPT !.rep = AppendToNodeReport(@, nodeName,
                   <<"pod host ip does not match with k8snode ip",
                     pod.HostIPAddress, adr.Address>>)]
           ELSE [st EXCEPT !.i = @ + 1]
      ELSE IF adr.Type = HOSTNAME
      THEN IF adr.Address # nodeName
           THEN [st EXCEPT !.rep = AppendToNodeReport(@, nodeName,
                   <<"pod host name does not match node name", adr.Address, nodeName>>)]
           ELSE [st EXCEPT !.i = @ + 1]
      ELSE st)

WrongMatchCount_LessThanTwo(i) == i < 2

\* if i != 2 { continue }
WrongMatchCount(i) == i # 2

PodInfoPod(o, st) ==
  LET pod == pods[o] IN
  IF ~Found(vppIdx.HostIP, pod.HostIPAddress)
  THEN [st EXCEPT !.rep = AppendToNodeReport(@, GlobalMsg,
          <<"error finding node for Pod with host ip", pod.Name, pod.HostIPAddress>>)]
  ELSE
    LET node == nodes[RetrieveNodeByHostIPAddr(pod.HostIPAddress)] IN
    IF pod.Name \notin DOMAIN node.PodMap
    THEN [st EXCEPT !.rep = AppendToNodeReport(@, node.Name,
            <<"pod in node podMap not found", pod.Name, node.Name>>)]
    ELSE IF ~SamePod(o, node.PodMap[pod.Name])
    THEN [st EXCEPT !.rep = AppendToNodeReport(@, node.Name,
            <<"node podmap pod is not the same as cache podmap pod",
              pods[node.PodMap[pod.Name]].Name, pod.Name>>)]
    ELSE IF ~K8sNodeFound(node.Name)
    THEN [st EXCEPT !.rep = AppendToNodeReport(@, node.Name,
            <<"cannot find k8snode in k8sNodeMap for node with name", node.Name>>)]
    ELSE
      LET st1 == AddressScan(pod, node.Name, RetrieveK8sNode(node.Name).Addresses,
                   [rep |-> st.rep, i |-> 0])
      IN IF WrongMatchCount(st1.i)
         THEN [st EXCEPT !.rep = st1.rep]
         ELSE [st EXCEPT !.rep = st1.rep, !.podMap = @ \ {pod.Name}]

RECURSIVE PodInfoScan(_, _)
PodInfoScan(k, st) ==
  IF k > Len(RetrieveAllPods) THEN st
  ELSE PodInfoScan(k + 1, PodInfoPod(RetrieveAllPods[k], st))

PodInfoOutcomes(rep) ==
  LET st == PodInfoScan(1,
              [rep |-> rep, podMap |-> {pods[o].Name : o \in Range(RetrieveAllPods)}])
  IN IF st.podMap # {}
     THEN {AppendSeqToNodeReport(st.rep, GlobalMsg,
             [k \in 1..Len(ord) |-> <<"error processing pod", ord[k]>>]) :
           ord \in Perms(st.podMap)}
     ELSE {AppendToNodeReport(st.rep, GlobalMsg, <<"success validating pod info.">>)}

(***************************************************************************)
(* uint32 arithmetic of the tap binder.  A uint32 is the pair of its       *)
(* 16-bit halves.                                                          *)
(***************************************************************************)
Half == 256 * 256

\* (u << log2(m)) + n, in 32 bits
ShlAdd(u, m, n) ==
  LET lo2 == u.lo * m + n
  IN [hi |-> (u.hi * m + lo2 \div Half) % Half, lo |-> lo2 % Half]

RECURSIVE maskLoop(_, _, _)
maskLoop(i, ml, mask) ==
  IF i < 32 - ml THEN maskLoop(i + 1, ml, ShlAdd(mask, 2, 1)) ELSE mask

\* the network mask of the length: the complement of the mask of the code
maskLength2Mask_Prefix(ml) ==
  [hi |-> Half - 1 - maskLoop(0, ml, [hi |-> 0, lo |-> 0]).hi,
   lo |-> Half - 1 - maskLoop(0, ml, [hi |-> 0, lo |-> 0]).lo]

maskLength2Mask(ml) == maskLoop(0, ml, [hi |-> 0, lo |-> 0])

RECURSIVE ipLoop(_, _)
ipLoop(parts, ipu) ==
  IF parts = <<>> THEN ipu
  ELSE ipLoop(Tail(parts), ShlAdd(ipu, 256, Head(parts)))

\* ip2uint32 of the string whose dot-separated parts Atoi reads as parts
ip2uint32(parts) == ipLoop(parts, [hi |-> 0, lo |-> 0])

RECURSIVE And16(_, _)
And16(a, b) ==
  IF a = 0 \/ b = 0 THEN 0
  ELSE (a % 2) * (b % 2) + 2 * And16(a \div 2, b \div 2)

BitAnd(u, v) == [hi |-> And16(u.hi, v.hi), lo |-> And16(u.lo, v.lo)]

\* strconv.Atoi on the decimal strings of the model
AtoiRange == (0 - 1)..40

AtoiTable ==
  [str \in {ToString(n) : n \in AtoiRange} |->
     CHOOSE n \in AtoiRange : ToString(n) = str]

AtoiOk(str) == str \in DOMAIN AtoiTable

Atoi(str) == IF AtoiOk(str) THEN AtoiTable[str] ELSE 0

\* the masks of the lengths Atoi can return
MaskOf == [ml \in AtoiRange |-> maskLength2Mask(ml)]

\* strings.Contains(name, "tap") on the internal names of the model
TapNames == {"tap" \o ToString(k) : k \in 0..9}

ContainsTap(name) == name \in TapNames

(***************************************************************************)
(* ValidateTapToPod                                                        *)
(***************************************************************************)
TapMatches(podIPAddress, tapIP, bitmask) ==
  BitAnd(ip2uint32(podIPAddress), bitmask) = BitAnd(ip2uint32(tapIP), bitmask)

\* the addresses of interface intf that pass the test of the inner loop
MatchingAddrs(pod, intf, bitmask) ==
  {k \in 1..Len(intf.IPAddresses) :
     TapMatches(pod.IPAddress, intf.IPAddresses[k][1], bitmask)}

MatchingTaps(pod, vppNode, bitmask) ==
  {x \in DOMAIN vppNode.NodeInterfaces :
     /\ ContainsTap(vppNode.NodeInterfaces[x].VppInternalName)
     /\ MatchingAddrs(pod, vppNode.NodeInterfaces[x], bitmask) # {}}

Bind(pod, intf, k) ==
  [pod EXCEPT !.VppIfIPAddr = intf.IPAddresses[k],
              !.VppIfInternalName = intf.VppInternalName,
              !.VppIfName = intf.Name,
              !.VppSwIfIdx = intf.SwIfIndex]

\* every match overwrites the pod's fields: the pod ends with the last
\* matching address of the matching interface the map range visits last
TapBindings(c, o, vppNode, bitmask) ==
  LET pod == c.pods[o]
      taps == MatchingTaps(pod, vppNode, bitmask)
  IN IF taps = {} THEN {c}
     ELSE {[c EXCEPT !.pods[o] =
              Bind(pod, vppNode.NodeInterfaces[x],
                   CHOOSE k \in MatchingAddrs(pod, vppNode.NodeInterfaces[x], bitmask) :
                     \A l \in MatchingAddrs(pod, vppNode.NodeInterfaces[x], bitmask) : l <= k),
                     !.podMap = @ \ {pod.Name}] : x \in taps}

HostNetworkPod_Never(pod) == FALSE

HostNetworkPod(pod) == pod.IPAddress = pod.HostIPAddress

TapToPodPod(o, c) ==
  LET pod == c.pods[o] IN
  IF HostNetworkPod(pod)
  THEN {[c EXCEPT !.podMap = @ \ {pod.Name}]}
  ELSE IF ~Found(vppIdx.HostIP, pod.HostIPAddress)
  THEN {[c EXCEPT !.rep = AppendToNodeReport(@, GlobalMsg,
           <<"validator internal error: inconsistent Host IP Address index",
             pod.HostIPAddress>>)]}
  ELSE
    LET vppNode == nodes[RetrieveNodeByHostIPAddr(pod.HostIPAddress)] IN
    IF ~K8sNodeFound(vppNode.Name)
    THEN {[c EXCEPT !.rep = AppendToNodeReport(@, vppNode.Name,
             <<"validator internal error: inconsistent K8s node index", vppNode.Name>>)]}
    ELSE
      LET k8sNode == RetrieveK8sNode(vppNode.Name)
          str == k8sNode.Pod_CIDR
      IN
      IF Len(str) < 2
      THEN \* mask := str[1] is out of range: the run panics
           {[c EXCEPT !.panic = TRUE]}
      ELSE
        LET c1 == IF AtoiOk(str[2]) THEN c
                  ELSE [c EXCEPT !.rep = AppendToNodeReport(@, k8sNode.Name,
                          <<"invalid Pod_CIDR", k8sNode.Pod_CIDR>>)]
        IN TapBindings(c1, o, vppNode, MaskOf[Atoi(str[2])])

RECURSIVE TapToPodScan(_, _)
TapToPodScan(k, S) ==
  IF k > Len(RetrieveAllPods) THEN S
  ELSE TapToPodScan(k + 1,
         UNION {IF c.panic THEN {c} ELSE TapToPodPod(RetrieveAllPods[k], c) : c \in S})

\* pods left in podMap are printed, not reported
TapToPodOutcomes(rep) ==
  TapToPodScan(1, {[pods |-> pods, rep |-> rep, panic |-> FALSE,
                    podMap |-> {pods[o].Name : o \in Range(RetrieveAllPods)}]})

(***************************************************************************)
(* Validate(): the six sub-validators, one after the other.  muts names    *)
(* the defects of the snapshot, ran the sub-validators that returned,      *)
(* nodeMap the nodes ValidateL2Connectivity left unvalidated.              *)
(***************************************************************************)
snapshot == <<nodes, vppIdx, k8sNodes>>

Init ==
  \E ms \in MutationSeqs :
    /\ muts = ms
    /\ nodes = Snapshot(ms).nodes
    /\ vppIdx = Snapshot(ms).idx
    /\ k8sNodes = Snapshot(ms).k8s
    /\ pods = Snapshot(ms).pods
    /\ report = EmptyReport
    /\ nodeMap = {}
    /\ pc = "ValidateArpTables"
    /\ ran = <<>>
    /\ rerun = FALSE
    /\ prevReport = EmptyReport

\* the snapshots of the second family of defects
InitExt ==
  \E ms \in ExtMutationSeqs :
    /\ muts = ms
    /\ nodes = Snapshot(ms).nodes
    /\ vppIdx = Snapshot(ms).idx
    /\ k8sNodes = Snapshot(ms).k8s
    /\ pods = Snapshot(ms).pods
    /\ report = EmptyReport
    /\ nodeMap = {}
    /\ pc = "ValidateArpTables"
    /\ ran = <<>>
    /\ rerun = FALSE
    /\ prevReport = EmptyReport

Returned(this, next) ==
  /\ pc = this
  /\ pc' = next
  /\ ran' = Append(ran, this)
  /\ UNCHANGED <<muts, snapshot, rerun, prevReport>>

ValidateArpTables ==
  /\ Returned("ValidateArpTables", "ValidateL2Connectivity")
  /\ \E r \in ArpOutcomes(report) : report' = r
  /\ UNCHANGED <<pods, nodeMap>>

ValidateL2Connectivity ==
  /\ Returned("ValidateL2Connectivity", "ValidateL2FibEntries")
  /\ \E c \in L2ConnOutcomes(report) : report' = c.rep /\ nodeMap' = c.nodeMap
  /\ UNCHANGED pods

ValidateL2FibEntries ==
  /\ Returned("ValidateL2FibEntries", "ValidateK8sNodeInfo")
  /\ \E r \in L2FibOutcomes(report) : report' = r
  /\ UNCHANGED <<pods, nodeMap>>

ValidateK8sNodeInfo ==
  /\ Returned("ValidateK8sNodeInfo", "ValidatePodInfo")
  /\ report' = K8sNodeInfoOutcome(report)
  /\ UNCHANGED <<pods, nodeMap>>

ValidatePodInfo ==
  /\ Returned("ValidatePodInfo", "ValidateTapToPod")
  /\ \E r \in PodInfoOutcomes(report) : report' = r
  /\ UNCHANGED <<pods, nodeMap>>

ValidateTapToPod ==
  /\ pc = "ValidateTapToPod"
  /\ \E c \in TapToPodOutcomes(report) :
       /\ pods' = c.pods
       /\ report' = c.rep
       /\ pc' = IF c.panic THEN "panic" ELSE "done"
       /\ ran' = IF c.panic THEN ran ELSE Append(ran, "ValidateTapToPod")
  /\ UNCHANGED <<muts, snapshot, nodeMap, rerun, prevReport>>

\* a second Validate() over the snapshot the first one left, on a cleared report
ValidateAgain ==
  /\ pc = "done"
  /\ ~rerun
  /\ rerun' = TRUE
  /\ prevReport' = report
  /\ report' = EmptyReport
  /\ nodeMap' = {}
  /\ pc' = "ValidateArpTables"
  /\ ran' = <<>>
  /\ UNCHANGED <<muts, snapshot, pods>>

Next ==
  \/ ValidateArpTables
  \/ ValidateL2Connectivity
  \/ ValidateL2FibEntries
  \/ ValidateK8sNodeInfo
  \/ ValidatePodInfo
  \/ ValidateTapToPod

Spec == Init /\ [][Next]_vars

SpecExt == InitExt /\ [][Next]_vars

NextTwice == Next \/ ValidateAgain

SpecTwice == Init /\ [][NextTwice]_vars

(***************************************************************************)
(* Vocabulary of the properties.                                           *)
(***************************************************************************)
ValidateOrder ==
  <<"ValidateArpTables", "ValidateL2Connectivity", "ValidateL2FibEntries",
    "ValidateK8sNodeInfo", "ValidatePodInfo", "ValidateTapToPod">>

IsPrefix(p, q) == Len(p) <= Len(q) /\ \A k \in 1..Len(p) : p[k] = q[k]

Returns(name) == name \in Range(ran)

CountKind(msgs, kind) == Count(msgs, LAMBDA m : m[1] = kind)

RECURSIVE TotalKind(_, _)
TotalKind(B, kind) ==
  IF B = {} THEN 0
  ELSE LET b == CHOOSE x \in B : TRUE
       IN CountKind(report[b], kind) + TotalKind(B \ {b}, kind)

HasKindOf(kinds) == \E b \in Buckets : \E k \in 1..Len(report[b]) : report[b][k][1] \in kinds

ArpOK == <<"ARP Table Validation: OK">>

L2ConnOK == <<"L2 connectivity validation: OK">>

L2FibOK == <<"L2Fib validation: OK">>

PodInfoSuccess == <<"success validating pod info.">>

\* the global bucket after a run without findings
CleanGlobal == <<ArpOK, L2ConnOK, L2FibOK, PodInfoSuccess>>

ArpFindings ==
  {"invalid ARP entry: bad ifIndex", "invalid ARP entry: bad MAC Addess",
   "invalid ARP entry: bad IP Addess", "invalid ARP entry: MAC -> node, IP -> node",
   "missing ARP entry for node", "ARP Table Validation: error found"}

L2FibFindings ==
  {"vxlanBD not found - skipping L2Fib validation for node",
   "invalid L2Fib BVI entry: loop interface not found on node",
   "L2Fib BVI entry invalid - bad MAC address",
   "L2Fib validator internal error: inconsistent MAC Address index",
   "outgoing interface for L2Fib entry not found",
   "invalid L2Fib entry: remote node for VXLAN DstIP not found",
   "invalid L2Fib entry: missing loop interface on remote node",
   "invalid L2Fib entry: have MAC Address, expecting",
   "L2Fib entry for the 'loop0' interface not found",
   "missing L2Fib entry for node",
   "dangling L2Fib entry - no node for entry found",
   "L2Fib validation: errors found"}

K8sNodeFindings ==
  {"node not present in the k8s node map", "Contiv node missing for K8s node",
   "K8s node missing for Contiv node"}

PodInfoFindings ==
  {"error finding node for Pod with host ip", "pod in node podMap not found",
   "node podmap pod is not the same as cache podmap pod",
   "cannot find k8snode in k8sNodeMap for node with name",
   "pod host ip does not match with k8snode ip",
   "pod host name does not match node name", "error processing pod"}

TapToPodFindings ==
  {"validator internal error: inconsistent Host IP Address index",
   "validator internal error: inconsistent K8s node index", "invalid Pod_CIDR"}

\* the binding the binder gives pod i in the well-formed cluster
WFBound(i) == Bind(WFPod(i), WFInterface(i, 3), 1)

(***************************************************************************)
(* C1: on every snapshot, Validate runs the six sub-validators to          *)
(* completion in the order ARP, VXLAN mesh, L2 FIB, K8s node, pod info,    *)
(* tap binder; nothing found by one of them aborts the run.                *)
(* Refuted: a K8s node whose Pod_CIDR has no '/' makes ValidateTapToPod    *)
(* index str[1] out of range.                                              *)
(***************************************************************************)
C1_RunsAllSix ==
  /\ pc # "panic"
  /\ IsPrefix(ran, ValidateOrder)
  /\ (pc = "done" => ran = ValidateOrder)

(***************************************************************************)
(* C2: on the well-formed cluster no finding is appended to any node       *)
(* bucket, the ARP, mesh and FIB summaries are OK, the pod-info line is    *)
(* the success line and the mesh validator leaves no node unvalidated.     *)
(***************************************************************************)
C2_WellFormedClean ==
  (muts = <<>> /\ pc = "done") =>
    /\ \A n \in Buckets \ {GlobalMsg} : report[n] = <<>>
    /\ report[GlobalMsg] = CleanGlobal
    /\ nodeMap = {}

C2_Witness ==
  /\ muts = <<>>
  /\ pc = "done"
  /\ ran = ValidateOrder
  /\ \A i \in NodeIds : pods[i] = WFBound(i)

(***************************************************************************)
(* C3 (as claimed): with the VNI of exactly one tunnel of node a changed,  *)
(* a's bucket holds exactly one VNI-mismatch finding and every other       *)
(* report entry, the global lines included, is as on the well-formed       *)
(* cluster.  Refuted: the global mesh summary counts the finding.          *)
(***************************************************************************)
C3_Original ==
  \A a, b \in NodeIds :
    (muts = << <<"vni", a, b, BadVNI>> >> /\ pc = "done") =>
      /\ report[NodeName(a)] =
           << <<"bad VNI", VxlanIfName(b), "vxlan_tunnel" \o ToString(b), BadVNI, VppVNI>> >>
      /\ \A n \in Buckets \ {NodeName(a), GlobalMsg} : report[n] = <<>>
      /\ report[GlobalMsg] = CleanGlobal

(***************************************************************************)
(* C3 (amended): with the VNI of exactly one tunnel of node a changed,     *)
(* a's bucket holds exactly one VNI-mismatch finding, no other node bucket *)
(* has an entry, and the global lines are those of the well-formed run     *)
(* except the mesh summary, which reports 1 error.                         *)
(***************************************************************************)
C3_OneVniFinding ==
  \A a, b \in NodeIds :
    (muts = << <<"vni", a, b, BadVNI>> >> /\ pc = "done") =>
      /\ report[NodeName(a)] =
           << <<"bad VNI", VxlanIfName(b), "vxlan_tunnel" \o ToString(b), BadVNI, VppVNI>> >>
      /\ \A n \in Buckets \ {NodeName(a), GlobalMsg} : report[n] = <<>>
      /\ report[GlobalMsg] =
           <<ArpOK, <<"L2 connectivity validation: errors found", 1>>, L2FibOK,
             PodInfoSuccess>>

C3_Witness ==
  /\ pc = "done"
  /\ \E a, b \in NodeIds : muts = << <<"vni", a, b, BadVNI>> >>
  /\ TotalKind(Buckets, "bad VNI") = 1

(***************************************************************************)
(* C4: with the destination IP of exactly one tunnel corrupted (to an      *)
(* address of no node or of another node), the mesh validator reports      *)
(* exactly one 'no matching vxlan_tunnel found on remote node' finding.    *)
(***************************************************************************)
C4_OneNoMatchingTunnel ==
  \A a, b \in NodeIds : \A ip \in {UnknownIP} \cup {GigEIP(c) : c \in NodeIds} :
    (muts = << <<"dst", a, b, ip>> >> /\ Returns("ValidateL2Connectivity")) =>
      TotalKind(Buckets, "no matching vxlan_tunnel found on remote node") = 1

C4_Witness ==
  /\ Returns("ValidateL2Connectivity")
  /\ \E a, b, c \in NodeIds :
       /\ c \notin {a, b}
       /\ muts = << <<"dst", a, b, GigEIP(c)>> >>
       /\ <<"no matching vxlan_tunnel found on remote node", NodeName(a), VxlanIfName(a)>>
            \in Range(report[NodeName(b)])

(***************************************************************************)
(* C5 (as claimed): with node b's tunnel towards node a removed, the mesh  *)
(* validator reports a no-matching-remote-tunnel finding on a and none of  *)
(* the other five sub-validators has a new finding.  Refuted: b's FIB      *)
(* entry for a leaves through the removed tunnel, and the L2 FIB validator *)
(* reports it.                                                             *)
(***************************************************************************)
ReciprocalRemoved(a, b) == muts = << <<"rmif", b, 3 + a>> >>

MeshReportsOnA(a, b) ==
  <<"no matching vxlan_tunnel found on remote node", NodeName(b), VxlanIfName(b)>>
    \in Range(report[NodeName(a)])

NoFindingOfTheOtherFour ==
  /\ ~HasKindOf(ArpFindings \cup K8sNodeFindings \cup PodInfoFindings \cup TapToPodFindings)
  /\ ArpOK \in Range(report[GlobalMsg])
  /\ PodInfoSuccess \in Range(report[GlobalMsg])
  /\ \A i \in NodeIds : pods[i] = WFBound(i)

C5_Original ==
  \A a, b \in NodeIds :
    (a # b /\ ReciprocalRemoved(a, b) /\ pc = "done") =>
      /\ MeshReportsOnA(a, b)
      /\ NoFindingOfTheOtherFour
      /\ ~HasKindOf(L2FibFindings)

(***************************************************************************)
(* C5 (amended): with node b's tunnel towards node a removed, the mesh     *)
(* validator reports a no-matching-remote-tunnel finding on a; the ARP,    *)
(* K8s node, pod info and tap binder sub-validators have no new finding;   *)
(* the L2 FIB validator reports, on b only, the entry for a whose outgoing *)
(* interface is the removed tunnel.                                        *)
(***************************************************************************)
C5_MeshAndFibOnly ==
  \A a, b \in NodeIds :
    (a # b /\ ReciprocalRemoved(a, b) /\ pc = "done") =>
      /\ MeshReportsOnA(a, b)
      /\ NoFindingOfTheOtherFour
      /\ <<"outgoing interface for L2Fib entry not found", LoopMAC(a),
           "vxlan_tunnel" \o ToString(a), 3 + a>> \in Range(report[NodeName(b)])
      /\ \A n \in Buckets \ {NodeName(b), GlobalMsg} :
           \A k \in 1..Len(report[n]) : report[n][k][1] \notin L2FibFindings

C5_Witness ==
  /\ pc = "done"
  /\ \E a, b \in NodeIds : a # b /\ ReciprocalRemoved(a, b) /\ MeshReportsOnA(a, b)

(***************************************************************************)
(* C6: with exactly one static BVI ARP entry (for peer p) deleted from     *)
(* node x, the ARP validator appends exactly one 'missing ARP entry for    *)
(* node p' to x's bucket, no other node bucket gets a finding, and the     *)
(* global ARP summary counts 1 error.                                      *)
(***************************************************************************)
C6_OneMissingArp ==
  \A x, p \in NodeIds :
    (muts = << <<"rmarp", x, p>> >> /\ Returns("ValidateArpTables")) =>
      /\ SelectSeq(report[NodeName(x)], LAMBDA m : m[1] \in ArpFindings) =
           << <<"missing ARP entry for node", NodeName(p)>> >>
      /\ \A n \in Buckets \ {NodeName(x), GlobalMsg} : report[n] = <<>>
      /\ report[GlobalMsg][1] = <<"ARP Table Validation: error found", 1, "s">>

C6_Witness ==
  /\ pc = "done"
  /\ \E x, p \in NodeIds :
       /\ muts = << <<"rmarp", x, p>> >>
       /\ report[NodeName(x)] = << <<"missing ARP entry for node", NodeName(p)>> >>

(***************************************************************************)
(* C7: a pod whose host IP resolves to a node and whose name is in that    *)
(* node's pod map, but whose entry there is another object than the pod    *)
(* of the K8s cache (even an equal copy), gets a not-the-same-pod finding  *)
(* in the node's bucket and stays in the tracking set: it is reported as   *)
(* failed and the success line is not emitted.                             *)
(***************************************************************************)
SeparateObject(o) ==
  /\ Found(vppIdx.HostIP, pods[o].HostIPAddress)
  /\ pods[o].Name \in DOMAIN nodes[vppIdx.HostIP[pods[o].HostIPAddress]].PodMap
  /\ nodes[vppIdx.HostIP[pods[o].HostIPAddress]].PodMap[pods[o].Name] # o

C7_CopyIsFlagged ==
  \A o \in Range(PodList) :
    (SeparateObject(o) /\ Returns("ValidatePodInfo")) =>
      /\ <<"node podmap pod is not the same as cache podmap pod",
           pods[o].Name, pods[o].Name>>
           \in Range(report[vppIdx.HostIP[pods[o].HostIPAddress]])
      /\ <<"error processing pod", pods[o].Name>> \in Range(report[GlobalMsg])
      /\ PodInfoSuccess \notin Range(report[GlobalMsg])

C7_Witness ==
  /\ pc = "ValidateTapToPod"
  /\ \E o \in Range(PodList) :
       /\ SeparateObject(o)
       /\ pods[nodes[vppIdx.HostIP[pods[o].HostIPAddress]].PodMap[pods[o].Name]] = pods[o]
       /\ <<"error processing pod", pods[o].Name>> \in Range(report[GlobalMsg])

(***************************************************************************)
(* C8: a second Validate over the snapshot the first one left reports, in  *)
(* every bucket, the same entries in the same order as the first.          *)
(* Refuted: leftover peers and entries are reported in the order of a      *)
(* range over a Go map.                                                    *)
(***************************************************************************)
C8_SameReportTwice == (rerun /\ pc = "done") => report = prevReport

(***************************************************************************)
(* C9: a Validate run changes no snapshot state but the four binding       *)
(* fields of pods, and only in the tap binder; the binding fields of a     *)
(* host-networked pod are never written.                                   *)
(***************************************************************************)
Unbound(pod) ==
  [pod EXCEPT !.VppIfIPAddr = <<>>, !.VppIfInternalName = "", !.VppIfName = "",
              !.VppSwIfIdx = 0]

FrameOfStep ==
  /\ nodes' = nodes
  /\ vppIdx' = vppIdx
  /\ k8sNodes' = k8sNodes
  /\ DOMAIN pods' = DOMAIN pods
  /\ \A o \in DOMAIN pods : Unbound(pods'[o]) = Unbound(pods[o])
  /\ pc # "ValidateTapToPod" => pods' = pods
  /\ \A o \in DOMAIN pods :
       pods[o].IPAddress = pods[o].HostIPAddress => pods'[o] = pods[o]

C9_OnlyBindingFieldsChange == [][FrameOfStep]_vars

C9_Witness ==
  /\ pc = "done"
  /\ \E o \in Range(PodList) : pods[o].IPAddress # pods[o].HostIPAddress /\ pods[o].VppIfName # ""
  /\ \E o \in Range(PodList) : pods[o].IPAddress = pods[o].HostIPAddress /\ pods[o].VppIfName = ""

(***************************************************************************)
(* C10.  Addresses of the model have four parts below 256; their leading   *)
(* and trailing bits are taken part by part.                               *)
(***************************************************************************)
Min(a, b) == IF a < b THEN a ELSE b

Max(a, b) == IF a < b THEN b ELSE a

\* the leading len bits of ip
LeadingBits(ip, len) ==
  [j \in 1..4 |-> ip[j] \div 2^(8 - Min(8, Max(0, len - 8 * (j - 1))))]

\* the trailing cnt bits of ip
TrailingBits(ip, cnt) ==
  [j \in 1..4 |-> ip[j] % 2^Min(8, Max(0, cnt - 8 * (4 - j)))]

\* pod o is one the binder looks for a tap for, on a node whose Pod_CIDR
\* has a prefix length
Bindable(o) ==
  /\ pods[o].IPAddress # pods[o].HostIPAddress
  /\ Found(vppIdx.HostIP, pods[o].HostIPAddress)
  /\ K8sNodeFound(vppIdx.HostIP[pods[o].HostIPAddress])
  /\ Len(k8sNodes[vppIdx.HostIP[pods[o].HostIPAddress]].Pod_CIDR) = 2
  /\ AtoiOk(k8sNodes[vppIdx.HostIP[pods[o].HostIPAddress]].Pod_CIDR[2])

PrefixLength(o) == AtoiTable[k8sNodes[vppIdx.HostIP[pods[o].HostIPAddress]].Pod_CIDR[2]]

IsBound(o) == pods[o].VppIfIPAddr # <<>>

\* the addresses of the tap interfaces of pod o's node
TapAddrs(o) ==
  LET ifs == nodes[vppIdx.HostIP[pods[o].HostIPAddress]].NodeInterfaces
  IN UNION {{ifs[x].IPAddresses[k][1] : k \in 1..Len(ifs[x].IPAddresses)} :
            x \in {y \in DOMAIN ifs : ifs[y].VppInternalName \in TapNames}}

(***************************************************************************)
(* C10 (as claimed): a pod is bound only to a tap address that agrees with *)
(* the pod's IP on the leading L bits, L the prefix length of the node's   *)
(* Pod CIDR, and a tap address inside the pod's subnet is always accepted. *)
(* Refuted: the mask of the binder covers the trailing 32 - L bits.        *)
(***************************************************************************)
C10_Original ==
  \A o \in Range(PodList) :
    (pc = "done" /\ Bindable(o)) =>
      /\ IsBound(o) =>
           LeadingBits(pods[o].VppIfIPAddr[1], PrefixLength(o)) =
             LeadingBits(pods[o].IPAddress, PrefixLength(o))
      /\ (\E ip \in TapAddrs(o) :
            LeadingBits(ip, PrefixLength(o)) =
              LeadingBits(pods[o].IPAddress, PrefixLength(o)))
           => IsBound(o)

(***************************************************************************)
(* C10 (amended): a pod is bound only to a tap address that agrees with    *)
(* the pod's IP on the trailing 32 - L bits (the host part), L the prefix  *)
(* length of the node's Pod CIDR; a tap address that differs from the      *)
(* pod's IP in those bits is never bound and one that agrees with it in    *)
(* those bits is always accepted, whatever its network prefix.             *)
(***************************************************************************)
C10_TrailingBitsMatch ==
  \A o \in Range(PodList) :
    (pc = "done" /\ Bindable(o)) =>
      /\ IsBound(o) =>
           /\ pods[o].VppIfIPAddr[1] \in TapAddrs(o)
           /\ TrailingBits(pods[o].VppIfIPAddr[1], 32 - PrefixLength(o)) =
                TrailingBits(pods[o].IPAddress, 32 - PrefixLength(o))
      /\ (\E ip \in TapAddrs(o) :
            TrailingBits(ip, 32 - PrefixLength(o)) =
              TrailingBits(pods[o].IPAddress, 32 - PrefixLength(o)))
           => IsBound(o)

C10_Witness ==
  /\ pc = "done"
  /\ \E a \in NodeIds :
       /\ muts = << <<"tapip", a, <<10, 1, a, 7>>>> >>
       /\ Bindable(a) /\ ~IsBound(a)
       /\ \E o \in Range(PodList) :
            /\ Bindable(o) /\ IsBound(o)
            /\ LeadingBits(pods[o].VppIfIPAddr[1], PrefixLength(o)) #
                 LeadingBits(pods[o].IPAddress, PrefixLength(o))

(***************************************************************************)
(* C11: the tap binder writes a pod's binding fields once, with the data   *)
(* of the first matching tap address of the scan; later matching addresses *)
(* do not overwrite them.  Whatever the order in which the interfaces are  *)
(* visited, a bound pod then holds the first matching address of the       *)
(* interface it is bound to.                                               *)
(* Refuted: the inner loop has no break and every match overwrites the     *)
(* fields, so a tap with two matching addresses binds the second.          *)
(***************************************************************************)
NodeOfPod(o) == nodes[vppIdx.HostIP[pods[o].HostIPAddress]]

FirstMatchingAddr(o, x) ==
  LET ks == MatchingAddrs(pods[o], NodeOfPod(o).NodeInterfaces[x], MaskOf[PrefixLength(o)])
  IN CHOOSE k \in ks : \A l \in ks : k <= l

C11_FirstMatchBinds ==
  \A o \in Range(PodList) :
    (pc = "done" /\ Bindable(o) /\ IsBound(o)) =>
      \E x \in MatchingTaps(pods[o], NodeOfPod(o), MaskOf[PrefixLength(o)]) :
        pods[o] = Bind(pods[o], NodeOfPod(o).NodeInterfaces[x], FirstMatchingAddr(o, x))

(***************************************************************************)
(* C12: in the ARP validator a static overlay-BVI entry removes a peer     *)
(* from the expected-peer set only if its MAC and its IP resolve to the    *)
(* same node; after the validator returned, node x's bucket holds          *)
(* 'missing ARP entry for node p' exactly for the peers p that no          *)
(* consistent entry of x covers.                                           *)
(* Refuted: the delete at line 117 is outside the mismatch test, so an     *)
(* entry whose MAC resolves to another node than its IP still removes the  *)
(* node of its IP.                                                         *)
(***************************************************************************)
BviArpEntry(node, e) ==
  /\ e.Static
  /\ e.IfIndex \in DOMAIN node.NodeInterfaces
  /\ node.NodeInterfaces[e.IfIndex].IfType = LOOPBACK
  /\ node.NodeInterfaces[e.IfIndex].Name = "vxlanBVI"

ConsistentArpFor(node, p) ==
  \E k \in 1..Len(node.NodeIPArp) :
    LET e == node.NodeIPArp[k] IN
    /\ BviArpEntry(node, e)
    /\ Found(vppIdx.LoopMAC, e.PhysAddress)
    /\ Found(vppIdx.LoopIP, <<e.IPAddress, "24">>)
    /\ vppIdx.LoopMAC[e.PhysAddress] = p
    /\ vppIdx.LoopIP[<<e.IPAddress, "24">>] = p

MismatchArpFor(node, p) ==
  \E k \in 1..Len(node.NodeIPArp) :
    LET e == node.NodeIPArp[k] IN
    /\ BviArpEntry(node, e)
    /\ Found(vppIdx.LoopMAC, e.PhysAddress)
    /\ Found(vppIdx.LoopIP, <<e.IPAddress, "24">>)
    /\ vppIdx.LoopMAC[e.PhysAddress] # p
    /\ vppIdx.LoopIP[<<e.IPAddress, "24">>] = p

C12_ConsistentEntriesOnly ==
  Returns("ValidateArpTables") =>
    \A x \in DOMAIN nodes : \A p \in DOMAIN nodes \ {x} :
      (<<"missing ARP entry for node", p>> \in Range(report[x]))
        <=> ~ConsistentArpFor(nodes[x], p)

(***************************************************************************)
(* C13: the VXLAN mesh validator removes a node from the unvalidated-nodes *)
(* set only if no mesh finding was appended to its bucket during its scan: *)
(* every node whose bucket received a mesh finding also receives the final *)
(* 'failed to validate the Contiv cluster Vxlan BD' entry.                 *)
(* Refuted: a bad VNI, a missing reciprocal tunnel, a duplicate BVI and a  *)
(* wrong interface count append a finding without keeping the node in the  *)
(* set.                                                                    *)
(***************************************************************************)
MeshFindings ==
  {"multiple vxlanBD bridge domains - skipping L2 validation",
   "no vxlan BD - skipping L2 validation",
   "ifIndex invalid for BD interface", "duplicate BVI", "invalid BVI type",
   "validator internal error: bad MAC Addr index", "invalid BD interface type",
   "bad VNI", "error finding node with src IP",
   "vxlan_tunnel has source ip which points to a different node",
   "node with dst ip in vxlan_tunnel not found",
   "no matching vxlan_tunnel found on remote node",
   "the number of valid BD interfaces does not match the number of nodes in cluster",
   "BVI in the Contiv cluster Vxlan BD is invalid or missing",
   "BD interface missing or invalid for node"}

FailedToValidate == <<"failed to validate the Contiv cluster Vxlan BD">>

HasMeshFinding(n) == \E k \in 1..Len(report[n]) : report[n][k][1] \in MeshFindings

C13_RemovedOnlyIfClean ==
  Returns("ValidateL2Connectivity") =>
    \A n \in DOMAIN nodes :
      /\ HasMeshFinding(n) => n \in nodeMap
      /\ n \in nodeMap <=> FailedToValidate \in Range(report[n])

(***************************************************************************)
(* C14: in the VXLAN mesh validator a member of the overlay bridge domain  *)
(* whose interface name is not in the bridge domain's index-to-name        *)
(* metadata is reported as an invalid-index error naming the member, and   *)
(* is never validated as another interface of the node: no type finding    *)
(* is reported for it.                                                     *)
(* Refuted: the lookup bdName2Id[bdIfc.Name] yields 0 for a missing name,  *)
(* and the node's interface 0 (local0) is validated in its place.          *)
(***************************************************************************)
OverlayBD(node) == node.NodeBridgeDomains[CHOOSE k \in VxlanBDs(node) : TRUE]

UnindexedMembers(node) ==
  {k \in 1..Len(OverlayBD(node).Interfaces) :
     \A id \in DOMAIN OverlayBD(node).BdID2Name :
       OverlayBD(node).BdID2Name[id] # OverlayBD(node).Interfaces[k].Name}

C14_MissingIndexIsInvalid ==
  Returns("ValidateL2Connectivity") =>
    \A n \in DOMAIN nodes :
      Cardinality(VxlanBDs(nodes[n])) = 1 =>
        \A k \in UnindexedMembers(nodes[n]) :
          LET name == OverlayBD(nodes[n]).Interfaces[k].Name IN
          /\ \E j \in 1..Len(report[n]) :
               /\ report[n][j][1] = "ifIndex invalid for BD interface"
               /\ report[n][j][3] = name
          /\ \A j \in 1..Len(report[n]) :
               report[n][j][1] \in {"invalid BVI type", "invalid BD interface type"}
                 => report[n][j][3] # name

(***************************************************************************)
(* C15: for a node with exactly one bridge domain named vxlanBD the mesh   *)
(* validator scans the members and metadata of that bridge domain,         *)
(* whatever its position in the node's list; members of other bridge       *)
(* domains contribute nothing.  On the well-formed cluster with one other  *)
(* bridge domain added to a node, before or after its vxlanBD, the mesh    *)
(* validator therefore finds nothing.                                      *)
(* Refuted: vxLanBD = &bdomain keeps the address of the range variable,    *)
(* which ends holding the last bridge domain of the list.                  *)
(***************************************************************************)
C15_OtherBDsIgnored ==
  \A a \in NodeIds : \A pos \in {0, 1} :
    (muts = << <<"extrabd", a, pos>> >> /\ Returns("ValidateL2Connectivity")) =>
      /\ \A n \in DOMAIN nodes : ~HasMeshFinding(n)
      /\ nodeMap = {}
      /\ L2ConnOK \in Range(report[GlobalMsg])

(***************************************************************************)
(* C16: in the L2 FIB validator the unaccounted-peers set of node x holds  *)
(* the other nodes only: no 'missing L2Fib entry for node' finding in x's  *)
(* bucket names x, and a node without its own BVI entry gets the           *)
(* missing-loop0-entry finding alone.                                      *)
(* Refuted: nodeFibMap is filled with every node, x included, and x is     *)
(* only deleted from it by x's BVI entry.                                  *)
(***************************************************************************)
C16_PeersOnly ==
  Returns("ValidateL2FibEntries") =>
    \A x \in DOMAIN nodes :
      <<"missing L2Fib entry for node", x>> \notin Range(report[x])

(***************************************************************************)
(* C17: the internal-index check of the L2 FIB validator requires the      *)
(* entry's MAC to resolve to the expected node.  A node none of whose BVI  *)
(* entries has a MAC resolving to the node itself is reported as lacking   *)
(* its loop0 entry, and a remote entry whose MAC resolves to no node or to *)
(* another node than the peer of its outgoing tunnel gets an               *)
(* internal-index finding.                                                 *)
(* Refuted: both checks only test that the MAC resolves to some node.      *)
(***************************************************************************)
QualifyingKeys(node) ==
  {feKey \in DOMAIN node.NodeL2Fibs : Qualifies(node, feKey)}

MacResolvesTo(mac, name) == Found(vppIdx.LoopMAC, mac) /\ vppIdx.LoopMAC[mac] = name

\* the remote entry reaches the check of its MAC against peer p
RemoteEntryOfPeer(node, feKey, p) ==
  LET feVal == node.NodeL2Fibs[feKey] IN
  /\ ~feVal.BVI
  /\ feVal.OutgoingIfIndex \in DOMAIN node.NodeInterfaces
  /\ Found(vppIdx.GigEIP, node.NodeInterfaces[feVal.OutgoingIfIndex].Vxlan.DstAddress)
  /\ vppIdx.GigEIP[node.NodeInterfaces[feVal.OutgoingIfIndex].Vxlan.DstAddress] = p
  /\ HasLoopIF(nodes[p])

C17_MacResolvesToExpectedNode ==
  Returns("ValidateL2FibEntries") =>
    \A x \in DOMAIN nodes :
      HasVxlanBD(nodes[x]) =>
        /\ (\A feKey \in QualifyingKeys(nodes[x]) :
              nodes[x].NodeL2Fibs[feKey].BVI =>
                ~MacResolvesTo(nodes[x].NodeL2Fibs[feKey].PhysAddress, x))
             => <<"L2Fib entry for the 'loop0' interface not found">> \in Range(report[x])
        /\ \A feKey \in QualifyingKeys(nodes[x]) : \A p \in DOMAIN nodes :
             (/\ RemoteEntryOfPeer(nodes[x], feKey, p)
              /\ ~MacResolvesTo(nodes[x].NodeL2Fibs[feKey].PhysAddress, p))
               => <<"L2Fib validator internal error: inconsistent MAC Address index",
                    nodes[x].NodeL2Fibs[feKey].PhysAddress>> \in Range(report[x])

(***************************************************************************)
(* C18: for each node with an overlay bridge domain the L2 FIB validator   *)
(* reports as dangling, once each, exactly the qualifying entries (static, *)
(* in the overlay bridge domain) that are remote entries whose outgoing    *)
(* interface index is missing or whose tunnel destination resolves to no   *)
(* node; BVI entries and remote entries whose destination resolves to a    *)
(* peer are not dangling, and no finding of the validator names an entry   *)
(* that is not static or is of another bridge domain.                      *)
(***************************************************************************)
Dangling == "dangling L2Fib entry - no node for entry found"

\* the findings of the L2 FIB validator whose first argument is the entry's key
FibFindingsByKey ==
  {"invalid L2Fib BVI entry: loop interface not found on node",
   "L2Fib BVI entry invalid - bad MAC address",
   "invalid L2Fib entry: remote node for VXLAN DstIP not found",
   "invalid L2Fib entry: have MAC Address, expecting", Dangling}

\* those whose first argument is the entry's MAC
FibFindingsByMac ==
  {"L2Fib validator internal error: inconsistent MAC Address index",
   "outgoing interface for L2Fib entry not found",
   "invalid L2Fib entry: missing loop interface on remote node"}

NoPeerForEntry(node, feKey) ==
  LET feVal == node.NodeL2Fibs[feKey] IN
  /\ ~feVal.BVI
  /\ \/ feVal.OutgoingIfIndex \notin DOMAIN node.NodeInterfaces
     \/ ~Found(vppIdx.GigEIP,
               node.NodeInterfaces[feVal.OutgoingIfIndex].Vxlan.DstAddress)

DanglingExpected(node) ==
  {feKey \in QualifyingKeys(node) : NoPeerForEntry(node, feKey)}

DanglingReported(x) ==
  {report[x][k][2] : k \in {j \in 1..Len(report[x]) : report[x][j][1] = Dangling}}

C18_DanglingExactly ==
  Returns("ValidateL2FibEntries") =>
    \A x \in DOMAIN nodes :
      IF HasVxlanBD(nodes[x])
      THEN /\ DanglingReported(x) = DanglingExpected(nodes[x])
           /\ CountKind(report[x], Dangling) = Cardinality(DanglingExpected(nodes[x]))
           /\ \A k \in 1..Len(report[x]) :
                /\ report[x][k][1] \in FibFindingsByKey
                     => report[x][k][2] \in QualifyingKeys(nodes[x])
                /\ report[x][k][1] \in FibFindingsByMac
                     => \E feKey \in QualifyingKeys(nodes[x]) :
                          nodes[x].NodeL2Fibs[feKey].PhysAddress = report[x][k][2]
      ELSE DanglingReported(x) = {}

\* node a's entry for peer b leaves through an interface that is not in the
\* dump: it is reported for the interface and as dangling
C18_Witness ==
  /\ Returns("ValidateL2FibEntries")
  /\ \E a, b \in NodeIds :
       /\ a # b
       /\ muts = << <<"fibif", a, b, BadIfIndex>> >>
       /\ DanglingReported(NodeName(a)) = {LoopMAC(b)}
       /\ <<"outgoing interface for L2Fib entry not found", LoopMAC(b),
            "vxlan_tunnel" \o ToString(b), BadIfIndex>> \in Range(report[NodeName(a)])

(***************************************************************************)
(* C19.  The pod info cross-validator accounts for pod o when its host IP  *)
(* resolves to a node, the node's pod map holds the same pod object under  *)
(* the pod's name, the node's K8s record is found and exactly two of the   *)
(* record's address entries match (InternalIP entries equal to the pod's   *)
(* host IP, Hostname entries equal to the node's name).                    *)
(***************************************************************************)
MatchingAddressEntries(o) ==
  LET name == vppIdx.HostIP[pods[o].HostIPAddress]
      adrs == k8sNodes[name].Addresses
  IN {k \in 1..Len(adrs) :
        \/ adrs[k].Type = INTERNALIP /\ adrs[k].Address = pods[o].HostIPAddress
        \/ adrs[k].Type = HOSTNAME /\ adrs[k].Address = name}

Accounted(o) ==
  /\ Found(vppIdx.HostIP, pods[o].HostIPAddress)
  /\ pods[o].Name \in DOMAIN NodeOfPod(o).PodMap
  /\ NodeOfPod(o).PodMap[pods[o].Name] = o
  /\ K8sNodeFound(NodeOfPod(o).Name)
  /\ Cardinality(MatchingAddressEntries(o)) = 2

RemainingPods == {pods[o].Name : o \in {q \in Range(PodList) : ~Accounted(q)}}

ErrorProcessingLines(name) ==
  Count(report[GlobalMsg], LAMBDA m : m = <<"error processing pod", name>>)

\* the findings of the checks that leave the pod in the tracking set
PodSkipFindings ==
  {"error finding node for Pod with host ip", "pod in node podMap not found",
   "node podmap pod is not the same as cache podmap pod",
   "cannot find k8snode in k8sNodeMap for node with name"}

RemovedIffAllChecks ==
  /\ RemainingPods = {} <=> CountKind(report[GlobalMsg], PodInfoSuccess[1]) = 1
  /\ RemainingPods # {} => PodInfoSuccess \notin Range(report[GlobalMsg])
  /\ \A o \in Range(PodList) :
       ErrorProcessingLines(pods[o].Name) =
         IF pods[o].Name \in RemainingPods THEN 1 ELSE 0

(***************************************************************************)
(* C19 (as claimed): a pod is removed from the tracking set if and only if *)
(* it is accounted for; the success line is emitted if and only if every   *)
(* pod was removed, and then the validator appended no error finding to    *)
(* any bucket; otherwise one 'error processing pod' line is emitted per    *)
(* remaining pod.  Refuted: an address entry that does not match is        *)
(* reported and skipped without leaving the pod in the tracking set when   *)
(* two other entries match.                                                *)
(***************************************************************************)
C19_Original ==
  Returns("ValidatePodInfo") =>
    /\ RemovedIffAllChecks
    /\ PodInfoSuccess \in Range(report[GlobalMsg]) => ~HasKindOf(PodInfoFindings)

(***************************************************************************)
(* C19 (amended): a pod is removed from the tracking set if and only if it *)
(* is accounted for; the success line is emitted if and only if every pod  *)
(* was removed, and then the only findings the validator appended are      *)
(* address-mismatch findings of address entries other than the two that    *)
(* match; otherwise one 'error processing pod' line is emitted per         *)
(* remaining pod.                                                          *)
(***************************************************************************)
C19_RemovedIffAccounted ==
  Returns("ValidatePodInfo") =>
    /\ RemovedIffAllChecks
    /\ PodInfoSuccess \in Range(report[GlobalMsg]) =>
         ~HasKindOf(PodSkipFindings \cup {"error processing pod"})

\* every pod is accounted for, and a second InternalIP entry of a node was
\* reported as a mismatch
C19_Witness ==
  /\ Returns("ValidatePodInfo")
  /\ PodInfoSuccess \in Range(report[GlobalMsg])
  /\ \E a \in NodeIds :
       /\ muts = << <<"k8sextra", a, 0>> >>
       /\ <<"pod host ip does not match with k8snode ip", HostIP(a), UnknownIP>>
            \in Range(report[NodeName(a)])

====
